---- MODULE Spec2Model ----
(***************************************************************************)
(* A model of generate_apriltag_boards.py: load_config, the constructor of *)
(* AprilTagBoardGenerator, generate_board (tag loop, separator squares,    *)
(* corner marks) and generate_all_boards (PNG, PDF, specification sheet).  *)
(*                                                                         *)
(* Millimetre sizes and DPI are integers.  int(mm * (dpi / 25.4)) is       *)
(* modelled as the exact truncation of mm*dpi*10 / 254; the two agree for  *)
(* every integer mm in 1..3000 and dpi in 1..1200 in IEEE double           *)
(* arithmetic.                                                             *)
(*                                                                         *)
(* The canvas (a numpy uint8 array) is modelled as its size and the        *)
(* ordered log of the writes made to it on a white (255) background: two   *)
(* canvases of the same size with the same log hold the same pixels.       *)
(***************************************************************************)
EXTENDS Integers, Sequences, FiniteSets, TLC

VARIABLES
    pc,              \* position in main / generate_all_boards / generate_board
    HAS_YAML,        \* module-level flag, line 33/37
    HAS_MATPLOTLIB,  \* module-level flag, line 25/29
    file,            \* the configuration file main() is pointed at
    config,          \* what load_config returned
    gen,             \* the AprilTagBoardGenerator object (its fields)
    board_configs,   \* list of <<start_id, end_id>>
    board_num,       \* enumerate(board_configs, 1) index of the current board
    board,           \* the canvas generate_board is working on
    row, col,        \* loop variables of the current loop of generate_board
    current_id,      \* generate_board's current_id
    requests,        \* generateImageMarker calls of the current generate_board
    squares,         \* separator squares attempted by the current generate_board
    boards,          \* generate_all_boards' list of returned canvases
    events,          \* what generate_all_boards has done so far, in order
    error            \* the exception that ended the run, or "none"

vars == <<pc, HAS_YAML, HAS_MATPLOTLIB, file, config, gen, board_configs,
          board_num, board, row, col, current_id, requests, squares, boards,
          events, error>>

-----------------------------------------------------------------------------
(* Bounds of the direct (library) use of the generator.                    *)

MaxGrid == 2

MaxStart == 1

-----------------------------------------------------------------------------
(* Arithmetic.                                                             *)

Max(a, b) == IF a >= b THEN a ELSE b

Min(a, b) == IF a <= b THEN a ELSE b

\* Python's int() of the quotient n/d (d > 0): truncation toward zero.
IntTrunc(n, d) == IF n >= 0 THEN n \div d ELSE -((-n) \div d)

\* A mutant: round to nearest instead of truncating.
MmToPxRounded(mm, dpi) == IntTrunc(2 * mm * dpi * 10 + 254, 2 * 254)

\* int(mm * self.pixels_per_mm) with pixels_per_mm = dpi / 25.4.
MmToPx(mm, dpi) == IntTrunc(mm * dpi * 10, 254)

-----------------------------------------------------------------------------
(* load_config.  A YAML value is [type, val]: type "none" (null / empty    *)
(* document), "scalar", "list" or "map" (val a function on its keys).      *)

YNone == [type |-> "none", val |-> 0]

YScalar(v) == [type |-> "scalar", val |-> v]

YList(s) == [type |-> "list", val |-> s]

YMap(m) == [type |-> "map", val |-> m]

default_config ==
    YMap([apriltag |-> YMap([family |-> "36h11", grid_x |-> 7, grid_y |-> 7,
                             tag_size_mm |-> 40, spacing_mm |-> 10,
                             border_mm |-> 10, dpi |-> 300]),
          boards |-> YList(<< [start_id |-> 0, end_id |-> 48],
                              [start_id |-> 49, end_id |-> 97],
                              [start_id |-> 98, end_id |-> 146] >>),
          output |-> YMap([directory |-> "apriltag_boards"]),
          features |-> YMap([corner_markers |-> TRUE,
                             corner_marker_size_mm |-> 5,
                             corner_marker_thickness_mm |-> 1,
                             black_corner_squares |-> TRUE,
                             corner_square_size_mm |-> 10])])

\* The sections of default_config whose default is a dict (line 89).
DictSections == {k \in DOMAIN default_config.val : default_config.val[k].type = "map"}

\* Lines 90-92: the sub-keys of one section, the file's values kept.
MergeSection(sec, def) ==
    YMap([k \in (DOMAIN sec.val) \cup (DOMAIN def.val) |->
            IF k \in DOMAIN sec.val THEN sec.val[k] ELSE def.val[k]])

\* Lines 86-92 on a document that is a mapping.  `key not in config[key]`
\* and the item assignment raise TypeError when a section that defaults to
\* a dict is null, a number or a list in the file.
MergeDefaults(doc) ==
    IF \E k \in DictSections : k \in DOMAIN doc.val /\ doc.val[k].type # "map"
    THEN [status |-> "TypeError", cfg |-> YNone]
    ELSE [status |-> "ok",
          cfg |-> YMap([k \in (DOMAIN doc.val) \cup (DOMAIN default_config.val) |->
                    IF k \notin DOMAIN doc.val THEN default_config.val[k]
                    ELSE IF k \in DictSections
                         THEN MergeSection(doc.val[k], default_config.val[k])
                         ELSE doc.val[k]])]

\* load_config(config_path): f.state is "missing" (open raises
\* FileNotFoundError), "unparsable" (safe_load raises YAMLError) or
\* "loaded" (safe_load returned f.doc).
load_config(has_yaml, f) ==
    IF ~has_yaml THEN [status |-> "ok", cfg |-> default_config]
    ELSE IF f.state = "missing" THEN [status |-> "ok", cfg |-> default_config]
    ELSE IF f.state = "unparsable" THEN [status |-> "ok", cfg |-> default_config]
    ELSE IF f.doc.type # "map" THEN [status |-> "TypeError", cfg |-> YNone]
    ELSE MergeDefaults(f.doc)

-----------------------------------------------------------------------------
(* The configuration files main() is run on.                               *)

SmallTags == [grid_x |-> 2, grid_y |-> 2, tag_size_mm |-> 1, spacing_mm |-> 1,
              border_mm |-> 1, dpi |-> 254]

ConfigFiles == <<
    [state |-> "missing", doc |-> YNone],
    [state |-> "unparsable", doc |-> YNone],
    \* an empty file: safe_load returns None
    [state |-> "loaded", doc |-> YNone],
    \* a top-level list
    [state |-> "loaded", doc |-> YList(<<>>)],
    \* "apriltag: 7"
    [state |-> "loaded", doc |-> YMap([apriltag |-> YScalar(7)])],
    \* a small 16h5 board set: two equal ranges, a partial one, one past the
    \* 30 markers of the family
    [state |-> "loaded",
     doc |-> YMap([apriltag |-> YMap([family |-> "16h5"] @@ SmallTags),
                   boards |-> YList(<< [start_id |-> 0, end_id |-> 3],
                                       [start_id |-> 0, end_id |-> 3],
                                       [start_id |-> 4, end_id |-> 5],
                                       [start_id |-> 28, end_id |-> 31] >>)])],
    \* 2 DPI and an empty range: every pixel size below 10mm is 0
    [state |-> "loaded",
     doc |-> YMap([apriltag |-> YMap([dpi |-> 2, grid_x |-> 2, grid_y |-> 1]),
                   boards |-> YList(<< [start_id |-> 0, end_id |-> -1] >>)])],
    \* a longer corner marker asked for, and a range larger than the grid
    [state |-> "loaded",
     doc |-> YMap([apriltag |-> YMap(SmallTags),
                   features |-> YMap([corner_marker_size_mm |-> 8]),
                   boards |-> YList(<< [start_id |-> 0, end_id |-> 5] >>)])],
    \* no boards
    [state |-> "loaded",
     doc |-> YMap([boards |-> YList(<<>>)])]
>>

NoFile == [state |-> "unused", doc |-> YNone]

NoConfig == [status |-> "unused", cfg |-> YNone]

-----------------------------------------------------------------------------
(* The marker library (cv2.aruco), as far as the program depends on it.    *)

\* get_apriltag_family_id: unknown names fall back to 36h11.
get_apriltag_family_id(family_name) ==
    IF family_name \in {"36h11", "25h9", "16h5"} THEN family_name ELSE "36h11"

\* Number of markers of the predefined dictionary.
FamilyCapacity(family) ==
    CASE family = "36h11" -> 587
      [] family = "25h9" -> 35
      [] family = "16h5" -> 30

\* markerSize + 2 border bits: the smallest side generateImageMarker accepts.
FamilyMinSide(family) ==
    CASE family = "36h11" -> 8
      [] family = "25h9" -> 7
      [] family = "16h5" -> 6

\* cv2.aruco.generateImageMarker(self.aruco_dict, current_id, self.tag_size_px)
\* raises cv2.error for an ID the dictionary does not hold or a side too small.
MarkerFails(g, id) ==
    \/ id < 0
    \/ id >= FamilyCapacity(g.family)
    \/ g.tag_size_px < FamilyMinSide(g.family)

-----------------------------------------------------------------------------
(* AprilTagBoardGenerator.__init__                                         *)

\* A mutant: the board width from the independently floored pixel sizes.
BoardPxSummed(grid, tag_size_mm, spacing_mm, border_mm, dpi) ==
    grid * MmToPx(tag_size_mm, dpi) + (grid - 1) * MmToPx(spacing_mm, dpi)
        + 2 * MmToPx(border_mm, dpi)

\* A mutant: the border counted on one side only.
BoardMmOneBorder(grid, tag_size_mm, spacing_mm, border_mm) ==
    grid * tag_size_mm + (grid - 1) * spacing_mm + border_mm

\* Lines 168-176: the board's size in mm, then in pixels.
BoardMm(grid, tag_size_mm, spacing_mm, border_mm) ==
    grid * tag_size_mm + (grid - 1) * spacing_mm + 2 * border_mm

BoardPx(grid, tag_size_mm, spacing_mm, border_mm, dpi) ==
    MmToPx(BoardMm(grid, tag_size_mm, spacing_mm, border_mm), dpi)

Generator(family, grid_x, grid_y, tag_size_mm, spacing_mm, border_mm, dpi) ==
    [family |-> family, grid_x |-> grid_x, grid_y |-> grid_y,
     tag_size_mm |-> tag_size_mm, spacing_mm |-> spacing_mm,
     border_mm |-> border_mm, dpi |-> dpi,
     tag_size_px |-> MmToPx(tag_size_mm, dpi),
     spacing_px |-> MmToPx(spacing_mm, dpi),
     border_px |-> MmToPx(border_mm, dpi),
     board_width_mm |-> BoardMm(grid_x, tag_size_mm, spacing_mm, border_mm),
     board_height_mm |-> BoardMm(grid_y, tag_size_mm, spacing_mm, border_mm),
     board_width_px |-> BoardPx(grid_x, tag_size_mm, spacing_mm, border_mm, dpi),
     board_height_px |-> BoardPx(grid_y, tag_size_mm, spacing_mm, border_mm, dpi)]

NoGenerator == Generator("36h11", 0, 0, 0, 0, 0, 0)

\* main(), lines 497-527, with no command-line override given.
GeneratorFromConfig(cfg) ==
    LET a == cfg.val.apriltag.val
    IN  Generator(get_apriltag_family_id(a.family), a.grid_x, a.grid_y,
                  a.tag_size_mm, a.spacing_mm, a.border_mm, a.dpi)

\* main(), line 513.
BoardConfigsFromConfig(cfg) ==
    [i \in 1..Len(cfg.val.boards.val) |->
        << cfg.val.boards.val[i].start_id, cfg.val.boards.val[i].end_id >>]

-----------------------------------------------------------------------------
(* generate_board                                                          *)

\* A write to the canvas.  "tag": marker id copied to [x0,x1) x [y0,y1);
\* "square": the rectangle set to 0; "line": cv2.line from (x0,y0) to
\* (x1,y1) in colour 0 with thickness t.
TagWrite(id, x, y, side) ==
    [kind |-> "tag", id |-> id, x0 |-> x, y0 |-> y, x1 |-> x + side,
     y1 |-> y + side, t |-> 0]

SquareWrite(x0, y0, x1, y1) ==
    [kind |-> "square", id |-> -1, x0 |-> x0, y0 |-> y0, x1 |-> x1, y1 |-> y1,
     t |-> 0]

LineWrite(x0, y0, x1, y1, t) ==
    [kind |-> "line", id |-> -1, x0 |-> x0, y0 |-> y0, x1 |-> x1, y1 |-> y1,
     t |-> t]

\* A mutant: the canvas of the previous call is drawn on again.
NewBoardReused(g) ==
    [w |-> g.board_width_px, h |-> g.board_height_px, writes |-> board.writes]

\* Line 206: np.ones((height, width)) * 255.
NewBoard(g) == [w |-> g.board_width_px, h |-> g.board_height_px, writes |-> <<>>]

NoBoard == [w |-> 0, h |-> 0, writes |-> <<>>]

\* Lines 227-228: the top-left pixel of a cell (start_x = start_y = border_px).
TagPos(g, k) == g.border_px + k * (g.tag_size_px + g.spacing_px)

\* Line 231: a numpy slice is clipped to the array, and assigning a
\* tag_size_px square to a smaller slice raises ValueError.
TagFits(g, b, x, y) ==
    /\ x + g.tag_size_px <= b.w
    /\ y + g.tag_size_px <= b.h

\* Line 237.
corner_square_size(g) == MmToPx(10, g.dpi)

\* Lines 245-263: the nominal origin of the square of lattice line k along an
\* axis of `grid` cells and `size` pixels.
SquarePos(g, k, grid, size) ==
    IF k = 0 THEN 0
    ELSE IF k = grid THEN size - corner_square_size(g)
    ELSE g.border_px + k * g.tag_size_px + (k - 1) * g.spacing_px

\* A mutant: the square is written where it nominally lies, unclipped.
ClipStartNone(p) == p

\* Lines 266-269.
ClipStart(p) == Max(0, p)

ClipEnd(p, side, size) == Min(size, p + side)

\* Lines 276-277.
marker_size(g) == MmToPx(5, g.dpi)

marker_thickness(g) == MmToPx(1, g.dpi)

\* Lines 280-299: the eight cv2.line calls, in order.
CornerLines(g) ==
    LET W == g.board_width_px
        H == g.board_height_px
        m == marker_size(g)
        t == marker_thickness(g)
    IN  << LineWrite(5, 5, 5 + m, 5, t),
           LineWrite(5, 5, 5, 5 + m, t),
           LineWrite(W - 5, 5, W - 5 - m, 5, t),
           LineWrite(W - 5, 5, W - 5, 5 + m, t),
           LineWrite(5, H - 5, 5 + m, H - 5, t),
           LineWrite(5, H - 5, 5, H - 5 - m, t),
           LineWrite(W - 5, H - 5, W - 5 - m, H - 5, t),
           LineWrite(W - 5, H - 5, W - 5, H - 5 - m, t) >>

\* A mutant: the exception is caught and logged where it was raised.
CrashSwallowed(e) ==
    /\ pc' = pc
    /\ error' = e

\* An exception leaves generate_board, generate_all_boards and main.
Crash(e) ==
    /\ pc' = "crashed"
    /\ error' = e

-----------------------------------------------------------------------------
(* Initial states: main() started on a configuration file, or the class    *)
(* used directly with a constructed generator and one or two ID ranges.    *)

Geometries == { <<1, 1, 1, 254>>, <<1, 2, 1, 300>>, <<2, 1, 1, 200>> }

\* Small IDs, and one two short of the capacity of 16h5.
StartIds == (0..MaxStart) \cup {FamilyCapacity("16h5") - 2}

InitCommon ==
    /\ HAS_YAML \in BOOLEAN
    /\ HAS_MATPLOTLIB \in BOOLEAN
    /\ board_num = 1
    /\ board = NoBoard
    /\ row = 0
    /\ col = 0
    /\ current_id = 0
    /\ requests = <<>>
    /\ squares = <<>>
    /\ boards = <<>>
    /\ events = <<>>
    /\ error = "none"

InitMain ==
    /\ InitCommon
    /\ pc = "main"
    /\ \E i \in DOMAIN ConfigFiles : file = ConfigFiles[i]
    /\ config = NoConfig
    /\ gen = NoGenerator
    /\ board_configs = <<>>

InitDirect ==
    /\ InitCommon
    /\ pc = "ready"
    /\ file = NoFile
    /\ config = NoConfig
    /\ \E gx \in 1..MaxGrid, gy \in 1..MaxGrid, geo \in Geometries :
          gen = Generator("16h5", gx, gy, geo[1], geo[2], geo[3], geo[4])
    /\ \E s \in StartIds :
       \E e \in (s - 2)..(s + gen.grid_x * gen.grid_y + 1) :
       \E twice \in BOOLEAN :
          board_configs = IF twice THEN << <<s, e>>, <<s, e>> >> ELSE << <<s, e>> >>

Init == InitMain \/ InitDirect

-----------------------------------------------------------------------------
(* main                                                                    *)

\* Line 494.
LoadConfig ==
    /\ pc = "main"
    /\ config' = load_config(HAS_YAML, file)
    /\ IF config'.status = "ok"
       THEN pc' = "loaded" /\ error' = error
       ELSE Crash("load_config: TypeError")
    /\ UNCHANGED <<HAS_YAML, HAS_MATPLOTLIB, file, gen, board_configs, board_num,
                   board, row, col, current_id, requests, squares, boards, events>>

\* Lines 497-530, up to the call of generate_all_boards.
Construct ==
    /\ pc = "loaded"
    /\ gen' = GeneratorFromConfig(config.cfg)
    /\ board_configs' = BoardConfigsFromConfig(config.cfg)
    /\ pc' = "ready"
    /\ UNCHANGED <<HAS_YAML, HAS_MATPLOTLIB, file, config, board_num, board,
                   row, col, current_id, requests, squares, boards, events, error>>

-----------------------------------------------------------------------------
(* generate_all_boards and the steps of generate_board                     *)

Event(op) ==
    [op |-> op, board_num |-> board_num,
     start_id |-> board_configs[board_num][1],
     end_id |-> board_configs[board_num][2]]

start_id == board_configs[board_num][1]

end_id == board_configs[board_num][2]

\* Lines 360-364 and 205-213: the next board of the list is started.
BeginBoard ==
    /\ pc = "ready"
    /\ board_num <= Len(board_configs)
    /\ events' = Append(events, Event("generate"))
    /\ board' = NewBoard(gen)
    /\ current_id' = start_id
    /\ row' = 0
    /\ col' = 0
    /\ requests' = <<>>
    /\ squares' = <<>>
    /\ pc' = IF gen.grid_y >= 1 /\ gen.grid_x >= 1 THEN "tags" ELSE "squares"
    /\ UNCHANGED <<HAS_YAML, HAS_MATPLOTLIB, file, config, gen, board_configs,
                   board_num, boards, error>>

\* The loop variables after the iteration (row, col) of a loop over
\* rows x cols, `broke` telling that the inner loop was left by break.
NextRow(broke, cols) == IF broke \/ col + 1 >= cols THEN row + 1 ELSE row

NextCol(broke, cols) == IF broke \/ col + 1 >= cols THEN 0 ELSE col + 1

\* A mutant: break leaves the inner loop and current_id starts over.
IdAfterBreakReset(id) == start_id

\* Line 217: break leaves current_id as it is.
IdAfterBreak(id) == id

\* A mutant: the column offset taken from the row.
CellXSwapped(g, r, c) == TagPos(g, r)

\* Line 227.
CellX(g, r, c) == TagPos(g, c)

\* Line 228.
CellY(g, r, c) == TagPos(g, r)

\* Lines 214-233: one iteration of the inner loop.
TagStep ==
    /\ pc = "tags"
    /\ LET broke == current_id > end_id
           x == CellX(gen, row, col)
           y == CellY(gen, row, col)
           r == NextRow(broke, gen.grid_x)
           c == NextCol(broke, gen.grid_x)
       IN  IF broke
           THEN /\ current_id' = IdAfterBreak(current_id)
                /\ row' = IF r >= gen.grid_y THEN 0 ELSE r
                /\ col' = c
                /\ pc' = IF r >= gen.grid_y THEN "squares" ELSE "tags"
                /\ UNCHANGED <<requests, board, error>>
           ELSE /\ requests' = Append(requests,
                                  [id |-> current_id, row |-> row, col |-> col])
                /\ IF MarkerFails(gen, current_id)
                   THEN /\ Crash("generateImageMarker: cv2.error")
                        /\ UNCHANGED <<board, current_id, row, col>>
                   ELSE IF ~TagFits(gen, board, x, y)
                   THEN /\ Crash("board[y:y+n, x:x+n]: ValueError")
                        /\ UNCHANGED <<board, current_id, row, col>>
                   ELSE /\ board' = [board EXCEPT !.writes =
                               Append(@, TagWrite(current_id, x, y, gen.tag_size_px))]
                        /\ current_id' = current_id + 1
                        /\ row' = IF r >= gen.grid_y THEN 0 ELSE r
                        /\ col' = c
                        /\ pc' = IF r >= gen.grid_y THEN "squares" ELSE "tags"
                        /\ error' = error
    /\ UNCHANGED <<HAS_YAML, HAS_MATPLOTLIB, file, config, gen, board_configs,
                   board_num, squares, boards, events>>

\* Lines 241-273: one iteration of the inner loop over the lattice points.
SquareStep ==
    /\ pc = "squares"
    /\ LET side == corner_square_size(gen)
           square_x == SquarePos(gen, col, gen.grid_x, gen.board_width_px)
           square_y == SquarePos(gen, row, gen.grid_y, gen.board_height_px)
           clip_x_start == ClipStart(square_x)
           clip_y_start == ClipStart(square_y)
           clip_x_end == ClipEnd(square_x, side, gen.board_width_px)
           clip_y_end == ClipEnd(square_y, side, gen.board_height_px)
           painted == clip_x_start < clip_x_end /\ clip_y_start < clip_y_end
           r == NextRow(FALSE, gen.grid_x + 1)
       IN  /\ squares' = Append(squares,
                            [row |-> row, col |-> col, x |-> square_x,
                             y |-> square_y, painted |-> painted])
           /\ board' = IF painted
                       THEN [board EXCEPT !.writes =
                               Append(@, SquareWrite(clip_x_start, clip_y_start,
                                                     clip_x_end, clip_y_end))]
                       ELSE board
           /\ row' = IF r > gen.grid_y THEN 0 ELSE r
           /\ col' = NextCol(FALSE, gen.grid_x + 1)
           /\ pc' = IF r > gen.grid_y THEN "lines" ELSE "squares"
    /\ UNCHANGED <<HAS_YAML, HAS_MATPLOTLIB, file, config, gen, board_configs,
                   board_num, current_id, requests, boards, events, error>>

\* Lines 275-301 and 365: the corner marks are drawn and the canvas returned
\* and appended to boards.  cv2.line asserts 0 < thickness.
CornerMarks ==
    /\ pc = "lines"
    /\ IF marker_thickness(gen) < 1
       THEN /\ Crash("line: cv2.error")
            /\ UNCHANGED <<board, boards>>
       ELSE /\ board' = [board EXCEPT !.writes = @ \o CornerLines(gen)]
            /\ boards' = Append(boards, board')
            /\ pc' = "png"
            /\ error' = error
    /\ UNCHANGED <<HAS_YAML, HAS_MATPLOTLIB, file, config, gen, board_configs,
                   board_num, row, col, current_id, requests, squares, events>>

\* Lines 367-369.
SavePng ==
    /\ pc = "png"
    /\ events' = Append(events, Event("png"))
    /\ pc' = "pdf"
    /\ UNCHANGED <<HAS_YAML, HAS_MATPLOTLIB, file, config, gen, board_configs,
                   board_num, board, row, col, current_id, requests, squares,
                   boards, error>>

\* A mutant: the PDF is written whether or not matplotlib was imported.
save_board_pdf_always(ev) == Append(ev, Event("pdf"))

\* Lines 309-343: save_board_pdf returns at once without matplotlib.
save_board_pdf(ev) == IF HAS_MATPLOTLIB THEN Append(ev, Event("pdf")) ELSE ev

\* Lines 371-373; then the loop goes to the next board.
SavePdf ==
    /\ pc = "pdf"
    /\ events' = save_board_pdf(events)
    /\ board_num' = board_num + 1
    /\ pc' = "ready"
    /\ UNCHANGED <<HAS_YAML, HAS_MATPLOTLIB, file, config, gen, board_configs,
                   board, row, col, current_id, requests, squares, boards, error>>

\* Lines 375-378: the specification sheet, then return boards.
SaveSpecifications ==
    /\ pc = "ready"
    /\ board_num > Len(board_configs)
    /\ events' = Append(events, [op |-> "specs", board_num |-> 0,
                                 start_id |-> 0, end_id |-> 0])
    /\ pc' = "done"
    /\ UNCHANGED <<HAS_YAML, HAS_MATPLOTLIB, file, config, gen, board_configs,
                   board_num, board, row, col, current_id, requests, squares,
                   boards, error>>

Next ==
    \/ LoadConfig
    \/ Construct
    \/ BeginBoard
    \/ TagStep
    \/ SquareStep
    \/ CornerMarks
    \/ SavePng
    \/ SavePdf
    \/ SaveSpecifications

Spec == Init /\ [][Next]_vars

-----------------------------------------------------------------------------
(* Properties.                                                             *)

\* generate_board is past its tag loop and has not returned to the caller's
\* next iteration: requests and board are those of board board_num.
PastTags == pc \in {"squares", "lines", "png", "pdf"}

PastSquares == pc \in {"lines", "png", "pdf"}

TagWrites(b) == SelectSeq(b.writes, LAMBDA w : w.kind = "tag")

SquareWrites(b) == SelectSeq(b.writes, LAMBDA w : w.kind = "square")

LineWrites(b) == SelectSeq(b.writes, LAMBDA w : w.kind = "line")

RangeSize == end_id - start_id + 1

\* px is the floor of mm * dpi / 25.4.
IsFloor(px, mm, dpi) == px * 254 <= mm * dpi * 10 /\ mm * dpi * 10 < (px + 1) * 254

\* C1: for a range of size n with 0 <= n <= grid_x*grid_y, generate_board
\* requests exactly n markers, the k-th (from 0) with ID start_id + k for the
\* cell (k div grid_x, k mod grid_x), writes each at the pixel origin of its
\* cell, and writes no other marker.
C1_RowMajorRequests ==
    (PastTags /\ RangeSize >= 0 /\ RangeSize <= gen.grid_x * gen.grid_y) =>
        /\ Len(requests) = RangeSize
        /\ Len(TagWrites(board)) = RangeSize
        /\ \A k \in 0..(RangeSize - 1) :
              LET r == k \div gen.grid_x
                  c == k % gen.grid_x
              IN  /\ requests[k + 1] = [id |-> start_id + k, row |-> r, col |-> c]
                  /\ TagWrites(board)[k + 1] =
                        TagWrite(start_id + k,
                                 gen.border_px + c * (gen.tag_size_px + gen.spacing_px),
                                 gen.border_px + r * (gen.tag_size_px + gen.spacing_px),
                                 gen.tag_size_px)

\* A partly filled grid: the range ends in the middle of a row that is not
\* the last one.
C1_Witness ==
    /\ pc = "squares"
    /\ gen.grid_x >= 2
    /\ gen.grid_y >= 2
    /\ RangeSize = gen.grid_x + 1
    /\ Len(requests) = RangeSize
    /\ gen.grid_x * gen.grid_y > RangeSize

\* C2: the constructor computes the board's millimetre size from the grid,
\* and every pixel size is the floor of its own millimetre size times
\* dpi/25.4; the canvas is allocated with the floored board size.
C2_FlooredGeometry ==
    (/\ pc \notin {"main", "loaded"}
     /\ gen.tag_size_mm > 0 /\ gen.spacing_mm > 0 /\ gen.border_mm > 0
     /\ gen.dpi > 0 /\ gen.grid_x >= 1 /\ gen.grid_y >= 1) =>
        /\ gen.board_width_mm = gen.grid_x * gen.tag_size_mm
               + (gen.grid_x - 1) * gen.spacing_mm + 2 * gen.border_mm
        /\ gen.board_height_mm = gen.grid_y * gen.tag_size_mm
               + (gen.grid_y - 1) * gen.spacing_mm + 2 * gen.border_mm
        /\ IsFloor(gen.board_width_px, gen.board_width_mm, gen.dpi)
        /\ IsFloor(gen.board_height_px, gen.board_height_mm, gen.dpi)
        /\ IsFloor(gen.tag_size_px, gen.tag_size_mm, gen.dpi)
        /\ IsFloor(gen.spacing_px, gen.spacing_mm, gen.dpi)
        /\ IsFloor(gen.border_px, gen.border_mm, gen.dpi)
        /\ pc \in {"tags", "squares", "lines", "png", "pdf"} =>
              /\ board.w = gen.board_width_px
              /\ board.h = gen.board_height_px

\* A canvas allocated for a board whose width rounds up to the next pixel
\* and whose parts, floored one by one, do not add up to it.
C2_Witness ==
    /\ pc = "tags"
    /\ gen.tag_size_mm > 0 /\ gen.spacing_mm > 0 /\ gen.border_mm > 0
    /\ board.w = gen.board_width_px
    /\ IsFloor(board.w, gen.board_width_mm, gen.dpi)
    /\ 2 * (gen.board_width_mm * gen.dpi * 10 - board.w * 254) >= 254
    /\ board.w # gen.grid_x * gen.tag_size_px + (gen.grid_x - 1) * gen.spacing_px
                    + 2 * gen.border_px

\* The 7x7, 40mm, 10mm, 10mm, 300 DPI generator on the range [0, 48].
DefaultBoard ==
    /\ PastTags
    /\ gen.grid_x = 7 /\ gen.grid_y = 7 /\ gen.tag_size_mm = 40
    /\ gen.spacing_mm = 10 /\ gen.border_mm = 10 /\ gen.dpi = 300
    /\ start_id = 0 /\ end_id = 48

DefaultMarkers ==
    /\ gen.board_width_mm = 360
    /\ Len(requests) = 49
    /\ Len(TagWrites(board)) = 49
    /\ \A k \in 1..49 : requests[k].id = k - 1 /\ TagWrites(board)[k].id = k - 1
    /\ requests[49] = [id |-> 48, row |-> 6, col |-> 6]

\* C3 as stated: on the default board the width is 360mm and 4252 pixels,
\* 49 markers with IDs 0..48 are placed, the last at row 6, column 6.
C3_AsStated == DefaultBoard => (DefaultMarkers /\ gen.board_width_px = 4252)

\* C3, amended: the same with a width of 4251 pixels, the floor of
\* 360 * 300 / 25.4 = 4251.97.
C3_DefaultBoard == DefaultBoard => (DefaultMarkers /\ gen.board_width_px = 4251)

C3_Witness == DefaultBoard /\ pc = "pdf" /\ board.w = 4251

\* The lattice point of the k-th (from 1) iteration of the square loop.
LatticeRow(k) == (k - 1) \div (gen.grid_x + 1)

LatticeCol(k) == (k - 1) % (gen.grid_x + 1)

InCanvas(w) ==
    /\ 0 <= w.x0 /\ w.x0 < w.x1 /\ w.x1 <= gen.board_width_px
    /\ 0 <= w.y0 /\ w.y0 < w.y1 /\ w.y1 <= gen.board_height_px

\* The part of the 10mm square at nominal origin (x, y) that lies on the canvas.
VisibleXs(x) ==
    {px \in 0..(gen.board_width_px - 1) :
        x <= px /\ px < x + (10 * gen.dpi * 10) \div 254}

VisibleYs(y) ==
    {py \in 0..(gen.board_height_px - 1) :
        y <= py /\ py < y + (10 * gen.dpi * 10) \div 254}

\* C4: every square write lies on the canvas at every moment; once the
\* square loop is over, (grid_x+1)*(grid_y+1) squares were attempted, one
\* per lattice point in row-major order, and the squares written are, in
\* order, those attempted squares with a pixel on the canvas: a square with
\* none wrote nothing.
C4_SquaresClipped ==
    /\ \A i \in 1..Len(board.writes) :
          board.writes[i].kind = "square" => InCanvas(board.writes[i])
    /\ PastSquares =>
          /\ Len(squares) = (gen.grid_x + 1) * (gen.grid_y + 1)
          /\ \A k \in 1..Len(squares) :
                /\ squares[k].row = LatticeRow(k)
                /\ squares[k].col = LatticeCol(k)
                /\ squares[k].painted <=>
                      (VisibleXs(squares[k].x) # {} /\ VisibleYs(squares[k].y) # {})
          /\ Len(SquareWrites(board)) =
                Cardinality({k \in 1..Len(squares) : squares[k].painted})

\* An edge square, nominally partly off the canvas, was written clipped.
C4_Witness ==
    /\ pc = "lines"
    /\ Len(squares) = (gen.grid_x + 1) * (gen.grid_y + 1)
    /\ \E k \in 1..Len(squares) :
          /\ squares[k].x < 0
          /\ squares[k].painted
    /\ \A i \in 1..Len(SquareWrites(board)) : InCanvas(SquareWrites(board)[i])

\* All squares empty (the square side is 0 pixels): nothing was written.
C4_EmptyReached ==
    /\ pc = "lines"
    /\ \A k \in 1..Len(squares) : ~squares[k].painted
    /\ board.writes = <<>>

MarkerError == "generateImageMarker: cv2.error"

EventsOf(n) == SelectSeq(events, LAMBDA e : e.board_num = n)

\* C5: when the marker generator fails, the run ends there: the canvas holds
\* the markers written before and nothing for the failed request, no canvas
\* was returned for the board, no PNG or PDF was written for it, and each
\* earlier board still has its canvas and its PNG (and its PDF, with
\* matplotlib).
C5_MarkerFailurePropagates ==
    error = MarkerError =>
        /\ pc = "crashed"
        /\ Len(requests) >= 1
        /\ Len(board.writes) = Len(requests) - 1
        /\ \A i \in 1..Len(board.writes) :
              board.writes[i].kind = "tag" /\ board.writes[i].id = requests[i].id
        /\ Len(boards) = board_num - 1
        /\ EventsOf(board_num) = << Event("generate") >>
        /\ \A n \in 1..(board_num - 1) :
              /\ \E i \in 1..Len(events) : events[i].op = "png" /\ events[i].board_num = n
              /\ HAS_MATPLOTLIB =>
                    \E i \in 1..Len(events) :
                        events[i].op = "pdf" /\ events[i].board_num = n

\* The failure came after markers were written, on a board that is not the
\* first one.
C5_Witness ==
    /\ error = MarkerError
    /\ pc = "crashed"
    /\ board_num >= 2
    /\ Len(requests) >= 2
    /\ Len(boards) = board_num - 1
    /\ \E i \in 1..Len(events) : events[i].op = "png"

\* main() was started on a configuration file and load_config has returned
\* or raised.
ConfigLoaded == file.state # "unused" /\ pc # "main"

\* C6 as stated: load_config never fails; a missing or unparsable file gives
\* the built-in defaults; a loaded file gives a configuration with every
\* section and every sub-key of the defaults, the file's values kept.
C6_AsStated ==
    ConfigLoaded =>
        /\ config.status = "ok"
        /\ error # "load_config: TypeError"
        /\ file.state \in {"missing", "unparsable"} => config.cfg = default_config
        /\ \A k \in DOMAIN default_config.val :
              /\ k \in DOMAIN config.cfg.val
              /\ default_config.val[k].type = "map" =>
                    \A sk \in DOMAIN default_config.val[k].val :
                        /\ sk \in DOMAIN config.cfg.val[k].val
                        /\ config.cfg.val[k].val[sk] =
                              IF /\ HAS_YAML
                                 /\ file.state = "loaded"
                                 /\ k \in DOMAIN file.doc.val
                                 /\ sk \in DOMAIN file.doc.val[k].val
                              THEN file.doc.val[k].val[sk]
                              ELSE default_config.val[k].val[sk]

\* The events generate_all_boards produces for boards n..k of the list.
RECURSIVE ExpectedEvents(_, _)
ExpectedEvents(n, k) ==
    IF n > k THEN <<>>
    ELSE LET e(op) == [op |-> op, board_num |-> n,
                       start_id |-> board_configs[n][1],
                       end_id |-> board_configs[n][2]]
         IN  << e("generate"), e("png") >>
                \o (IF HAS_MATPLOTLIB THEN << e("pdf") >> ELSE <<>>)
                \o ExpectedEvents(n + 1, k)

SpecsEvent == [op |-> "specs", board_num |-> 0, start_id |-> 0, end_id |-> 0]

IsPrefix(s, t) == Len(s) <= Len(t) /\ \A i \in 1..Len(s) : s[i] = t[i]

\* C7: at every moment what generate_all_boards has done is a prefix of:
\* for each board of the list in order, generate, PNG, PDF (the PDF left out
\* without matplotlib), then the specification sheet; when it returns, all
\* of that is done, the sheet was written once, and it returns one canvas
\* per board.
C7_ExportOrder ==
    /\ IsPrefix(events, ExpectedEvents(1, Len(board_configs)) \o << SpecsEvent >>)
    /\ pc = "done" =>
          /\ events = ExpectedEvents(1, Len(board_configs)) \o << SpecsEvent >>
          /\ Len(boards) = Len(board_configs)
          /\ Cardinality({i \in 1..Len(events) : events[i].op = "specs"}) = 1

\* A finished run over several boards without matplotlib: no PDF, the rest
\* as usual.
C7_Witness ==
    /\ pc = "done"
    /\ ~HAS_MATPLOTLIB
    /\ Len(board_configs) >= 2
    /\ Len(boards) = Len(board_configs)
    /\ Len(events) = 2 * Len(board_configs) + 1
    /\ events[Len(events)].op = "specs"

\* C8: generate_board leaves the generator's fields as they are, and two
\* boards returned for the same start_id and end_id are the same canvas.
C8_Idempotent ==
    [][/\ pc \in {"ready", "tags", "squares", "lines"} => gen' = gen
       /\ \A i, j \in 1..Len(boards') :
             board_configs'[i] = board_configs'[j] => boards'[i] = boards'[j]]_vars

\* Two canvases with markers, squares and corner marks were returned for the
\* same range.
C8_Witness ==
    /\ Len(boards) = 2
    /\ board_configs[1] = board_configs[2]
    /\ boards[1] = boards[2]
    /\ Len(TagWrites(boards[2])) >= 2
    /\ Len(SquareWrites(boards[2])) >= 4
    /\ Len(LineWrites(boards[2])) = 8

\* The corner marker length the run was configured with
\* (features.corner_marker_size_mm; 5 when the class is used directly).
ConfiguredMarkerMm ==
    IF config.status = "ok"
    THEN config.cfg.val.features.val.corner_marker_size_mm
    ELSE default_config.val.features.val.corner_marker_size_mm

\* A bracket at corner (cx, cy): the two segments start there and run len
\* pixels inwards (dx, dy are +1 or -1), first along x, then along y.
Bracket(l1, l2, cx, cy, dx, dy, len) ==
    /\ l1.kind = "line" /\ l2.kind = "line"
    /\ l1.x0 = cx /\ l1.y0 = cy /\ l1.x1 = cx + dx * len /\ l1.y1 = cy
    /\ l2.x0 = cx /\ l2.y0 = cy /\ l2.x1 = cx /\ l2.y1 = cy + dy * len

\* The canvas ends with exactly four brackets of len pixels, one per corner,
\* inset 5px, drawn after every square and every marker.
CornerBrackets(b, len) ==
    LET n == Len(b.writes)
        W == b.w
        H == b.h
    IN  /\ Len(LineWrites(b)) = 8
        /\ n >= 8
        /\ Bracket(b.writes[n - 7], b.writes[n - 6], 5, 5, 1, 1, len)
        /\ Bracket(b.writes[n - 5], b.writes[n - 4], W - 5, 5, -1, 1, len)
        /\ Bracket(b.writes[n - 3], b.writes[n - 2], 5, H - 5, 1, -1, len)
        /\ Bracket(b.writes[n - 1], b.writes[n], W - 5, H - 5, -1, -1, len)

\* C9 as stated: every returned canvas ends with four corner brackets whose
\* segments have the configured length.
C9_AsStated ==
    \A i \in 1..Len(boards) :
        CornerBrackets(boards[i], (ConfiguredMarkerMm * gen.dpi * 10) \div 254)

\* What the code draws: brackets of 5mm whatever was configured.
C9_FixedLength ==
    \A i \in 1..Len(boards) :
        CornerBrackets(boards[i], (5 * gen.dpi * 10) \div 254)

\* The per-cell rule: every cell in row-major order, candidate_id =
\* start_id + row*grid_x + col, kept if and only if candidate_id <= end_id.
PerCellRule ==
    SelectSeq([k \in 1..(gen.grid_x * gen.grid_y) |->
                  [id |-> start_id + ((k - 1) \div gen.grid_x) * gen.grid_x
                                   + ((k - 1) % gen.grid_x),
                   row |-> (k - 1) \div gen.grid_x,
                   col |-> (k - 1) % gen.grid_x]],
              LAMBDA c : c.id <= end_id)

\* C10: once the nested loop is over, the markers requested and written are,
\* in order and cell by cell, those of the per-cell rule, for every range.
C10_NestedLoopIsPerCell ==
    PastTags =>
        /\ requests = PerCellRule
        /\ Len(TagWrites(board)) = Len(requests)
        /\ \A k \in 1..Len(requests) :
              TagWrites(board)[k] =
                  TagWrite(requests[k].id,
                           gen.border_px
                             + requests[k].col * (gen.tag_size_px + gen.spacing_px),
                           gen.border_px
                             + requests[k].row * (gen.tag_size_px + gen.spacing_px),
                           gen.tag_size_px)

\* The inner loop was left by break in the first row and the later rows were
\* still visited.
C10_Witness ==
    /\ pc = "squares"
    /\ gen.grid_x >= 2
    /\ gen.grid_y >= 2
    /\ RangeSize = 1
    /\ requests = << [id |-> start_id, row |-> 0, col |-> 0] >>
    /\ current_id = end_id + 1

\* A range larger than the grid: every cell filled, the rest of the range unused.
C10_OverfullReached ==
    /\ pc = "squares"
    /\ RangeSize > gen.grid_x * gen.grid_y
    /\ Len(requests) = gen.grid_x * gen.grid_y

\* The pixels [lo, hi) of the tag cell with index k along an axis.
CellLo(k) == gen.border_px + k * (gen.tag_size_px + gen.spacing_px)

CellHi(k) == CellLo(k) + gen.tag_size_px

\* The side of a separator square, 10mm in pixels.
SquareSide == (10 * gen.dpi * 10) \div 254

\* The half-open intervals [a0, a1) and [b0, b1) share no pixel.
Apart(a0, a1, b0, b1) == a1 <= b0 \/ b1 <= a0 \/ a0 >= a1 \/ b0 >= b1

InteriorSquare(sq) ==
    /\ 0 < sq.row /\ sq.row < gen.grid_y
    /\ 0 < sq.col /\ sq.col < gen.grid_x

\* The square fills the gap: it begins where the cells before it end and
\* ends where the cells after it begin.
TouchesCorners(sq) ==
    /\ sq.x = CellHi(sq.col - 1)
    /\ sq.x + SquareSide = CellLo(sq.col)
    /\ sq.y = CellHi(sq.row - 1)
    /\ sq.y + SquareSide = CellLo(sq.row)

CoversNoCell(sq) ==
    \A r \in 0..(gen.grid_y - 1), c \in 0..(gen.grid_x - 1) :
        \/ Apart(sq.x, sq.x + SquareSide, CellLo(c), CellHi(c))
        \/ Apart(sq.y, sq.y + SquareSide, CellLo(r), CellHi(r))

\* C11 as stated: every interior separator square lies in the gap between
\* the adjacent tags, its corners touching the corners of the four adjacent
\* tag cells, and covers no pixel of any tag cell.
C11_AsStated ==
    \A k \in 1..Len(squares) :
        InteriorSquare(squares[k]) =>
            TouchesCorners(squares[k]) /\ CoversNoCell(squares[k])

\* What the code does: the square begins at the corner of the cell above
\* and to the left, and fills the gap exactly when the spacing is as many
\* pixels as the 10mm square.
C11_WhenSpacingIsSquare ==
    \A k \in 1..Len(squares) :
        InteriorSquare(squares[k]) =>
            /\ squares[k].x = CellHi(squares[k].col - 1)
            /\ squares[k].y = CellHi(squares[k].row - 1)
            /\ gen.spacing_px = SquareSide =>
                  TouchesCorners(squares[k]) /\ CoversNoCell(squares[k])

\* An interior square that fills its gap was reached (10mm spacing).
C11_GapFilledReached ==
    /\ pc = "lines"
    /\ gen.spacing_px = SquareSide
    /\ \E k \in 1..Len(squares) :
          InteriorSquare(squares[k]) /\ TouchesCorners(squares[k])

PositiveSpec ==
    /\ pc \notin {"main", "loaded"}
    /\ gen.grid_x >= 1 /\ gen.grid_y >= 1
    /\ gen.tag_size_mm > 0 /\ gen.spacing_mm > 0 /\ gen.border_mm > 0
    /\ gen.dpi > 0

\* The pixels the grid takes along an axis of `grid` cells, its parts
\* floored one by one.
SummedPx(grid) ==
    2 * gen.border_px + grid * gen.tag_size_px + (grid - 1) * gen.spacing_px

====
